---- MODULE Spec2Model ----
(***************************************************************************)
(* Model of the QGIS-TUFLOW plugin's retrying downloader                   *)
(* (tuflow/ARR2016/downloader.py) and of the SWMM process runner           *)
(* (tuflow/alg/swmm_run_inp.py, tuflow/alg/swmm_run_inp_or_gpkg.py).       *)
(*                                                                         *)
(* Spec      the Downloader hierarchy: one instance, a sequence of         *)
(*           download() calls, the process-wide user-agent setting.        *)
(* SpecLive  one download() call of DownloaderQGIS, with fairness.         *)
(* SpecRun   one run of the SWMM executable: launch, the read loop with    *)
(*           its cancellation poll, the wait, the report scan.             *)
(* SpecScan  the report scan alone, over reports long enough to pass the   *)
(*           ceiling of ten diagnostic lines.                              *)
(* SpecPre   processAlgorithm from its entry: the input file and the       *)
(*           executable are resolved, the command line is composed, the    *)
(*           child is launched; and the way of a failed launch to the end. *)
(* SpecDates _apply_date_overrides applied again and again to one .inp     *)
(*           file.                                                         *)
(* SpecPool  a sequence of processAlgorithm calls of                       *)
(*           swmm_run_inp_or_gpkg.py, each synchronous or as a task.       *)
(* SpecPair  two fetches of DownloaderQGIS under way at once, sharing the  *)
(*           process-wide user-agent setting.                              *)
(***************************************************************************)
EXTENDS Integers, Sequences, FiniteSets, TLC

(***************************************************************************)
(* Bounds of the model.                                                    *)
(***************************************************************************)
\* largest retry_count (and longest wait schedule) a caller passes explicitly
MaxRetry == 2
\* number of download() calls made on the one Downloader instance
MaxCalls == 2
\* number of lines the child process writes to its output
MaxLines == 3
\* number of lines of a numbered report (SpecScan)
MaxReportLines == 12
\* number of processAlgorithm calls (SpecPool)
MaxInvocations == 3
\* number of lines of a .inp file (SpecDates)
MaxInpLines == 3
\* number of _apply_date_overrides calls on the file (SpecDates)
MaxApplications == 2

(***************************************************************************)
(* Values.                                                                 *)
(***************************************************************************)
\* Python's None as the value of ret_code (the absence-of-code sentinel);
\* no HTTP status is 0.
NoCode == 0
\* Python's None as the value of a string-valued local.
PyNone == "<None>"
\* QSettings().contains(key) is false.
Absent == "<absent>"
\* the key the loop over the headers looks for
UAKey == "User-Agent"

\* download(retry_count = 5, retry_interval = range(5, 30, 5), ...)
DefaultRetryCount == 5
DefaultRetryInterval == <<5, 10, 15, 20, 25>>

\* a wait schedule of n entries, as a caller passes it
Schedule(n) == [i \in 1..n |-> 5 * i]

\* The statuses a GET can end with: none at all (a network-layer error), 200,
\* a non-200 success (204) and a client error (404).
Statuses == {NoCode, 200, 204, 404}

\* Response bodies, as sequences of bytes: empty, ASCII "A", the two-byte
\* encoding of U+00E9, a truncated two-byte sequence, a stray continuation byte.
Bodies == {<<>>, <<65>>, <<195, 169>>, <<195>>, <<65, 169>>}

\* Content-Type header values, cut into pieces so that an occurrence of the
\* substring "zip" is a piece of its own; NoHeader: the response has no such header.
NoHeader == <<"<no header>">>
ContentTypes == {NoHeader, <<"text/plain">>, <<"application/x-", "zip", "-compressed">>}

\* The headers a Downloader is constructed with: maps from names to values.
HeaderMaps == {[k \in S |-> "TUFLOW"] : S \in SUBSET {UAKey}}

\* The user-agent setting before the first call: not set, set to the empty
\* string, set to a browser string.
PriorUserAgents == {Absent, "", "QGIS/3.34"}

\* Validators a caller supplies: none, one that accepts non-empty data, one
\* that rejects everything.
Validators == {"none", "nonempty", "rejectall"}

Validate(v, body) == IF v = "nonempty" THEN Len(body) > 0 ELSE FALSE

(***************************************************************************)
(* Pure helpers of downloader.py.                                          *)
(***************************************************************************)
\* bytes.decode('utf-8') over one- and two-byte sequences: the code points, or
\* failure (UnicodeDecodeError).  The bytes of Bodies are all below 224, so no
\* longer sequence starts in them.
RECURSIVE Utf8Decode(_)
Utf8Decode(bs) ==
    IF bs = <<>> THEN [ok |-> TRUE, chars |-> <<>>]
    ELSE IF bs[1] < 128
        THEN LET rest == Utf8Decode(Tail(bs))
             IN  [ok |-> rest.ok, chars |-> <<bs[1]>> \o rest.chars]
    ELSE IF bs[1] >= 194 /\ bs[1] <= 223 /\ Len(bs) >= 2 /\ bs[2] >= 128 /\ bs[2] <= 191
        THEN LET rest == Utf8Decode(SubSeq(bs, 3, Len(bs)))
             IN  [ok |-> rest.ok,
                  chars |-> <<(bs[1] - 192) * 64 + (bs[2] - 128)>> \o rest.chars]
    ELSE [ok |-> FALSE, chars |-> <<>>]

\* b'zip' in content_type
ContainsZip(ct) == \E i \in 1..Len(ct) : ct[i] = "zip"

NoData == [kind |-> "none", val |-> <<>>]
TextData(chars) == [kind |-> "text", val |-> chars]
BinaryData(bytes) == [kind |-> "binary", val |-> bytes]

\* the classification of the payload by content type
Classify(ct, body) ==
    IF ~ContainsZip(ct) THEN TextData(Utf8Decode(body).chars) ELSE BinaryData(body)

\* does the classification raise UnicodeDecodeError
DecodeRaises(ct, body) == ~ContainsZip(ct) /\ ~Utf8Decode(body).ok

\* QNetworkReply.errorString(): never empty (Qt answers "Unknown error" when
\* no error is set)
ErrorString(status) ==
    IF status = 404 THEN "Error transferring - server replied: Not Found"
    ELSE IF status = NoCode THEN "Connection refused"
    ELSE "Unknown error"

\* requests' Response.text: the empty string for empty content, text otherwise
ResponseText(body) == IF body = <<>> THEN "" ELSE "<response text>"

\* requests' Response.ok: the status is below 400
ResponseOk(status) == status < 400

InvalidDataError == "Downloaded data is invalid or incomplete."

\* `if old_user_agent:`
Truthy(s) == s # PyNone /\ s # ""

\* the setting after the restore that follows every reply
RestoreUserAgent(old) == IF Truthy(old) THEN old ELSE Absent

\* `try_count < retry_count`
AttemptsRemainInclusive(tc, rc) == tc <= rc
AttemptsRemain(tc, rc) == tc < rc

\* retry_interval[try_count] raises IndexError
IndexRaises(tc, ri) == tc >= Len(ri)

VARIABLES
    transport,       \* the class Downloader.__new__ picked: "QGIS" or "Requests"
    headers,         \* self.headers
    userAgent,       \* the process-wide setting /qgis/networkAndProxy/userAgent
    data,            \* self.data
    ret_code,        \* self.ret_code
    error_string,    \* self.error_string
    pc,              \* "idle", "get" (about to issue a GET), "await", "done"
    try_count,       \* the local try_count
    old_user_agent,  \* the local old_user_agent
    retry_count,     \* the parameter retry_count
    retry_interval,  \* list(retry_interval)
    validator,       \* the parameter validator
    reply,           \* the reply the call ended with
    escaped,         \* the exception that left the most recent call, or "none"
    gets,            \* history: GETs issued by the current call
    attemptLog,      \* history: "fail", "reject" or "pass" for each attempt of the call
    priorUA,         \* history: the setting when the current call began
    calls,           \* history: calls begun on the instance
    dataCall,        \* history: the call that stored self.data (0: none did)
    waits,           \* history: the arguments of sleep() in the current call
    cacheRemovals    \* history: cache().remove(url) calls in the current call

\* The SWMM run (RunSWMMInp.processAlgorithm from the launch on).
VARIABLES
    variant,         \* "inp": swmm_run_inp.py, "gpkg": swmm_run_inp_or_gpkg.py
    run_as_task,     \* the parameter RUN_AS_TASK (gpkg only)
    rpc,             \* where the run is: "off", "entry", "exe", "compose", "call",
                     \* "launch", "read", "poll", "wait", "unwind", "handler",
                     \* "scan", "finish", "done", "escaped"
    procStatus,      \* the child process: "none", "running", "exited"
    procCode,        \* the exit code the child has yielded
    childOut,        \* the lines the child has written to the pipe
    linesRead,       \* how many of them the read loop has taken
    exit_code,       \* the local exit_code, the result of the run
    fbCanceled,      \* feedback.isCanceled()
    taskCanceled,    \* task.isCanceled()
    feedbackLog,     \* what the processing feedback received, in order
    messageLog,      \* what QgsMessageLog received, in order
    terminateCalls,  \* history: calls of proc.terminate()
    raised,          \* history: where an exception was raised: "none", "launch", "read", "wait"
    report,          \* the report file as the scan finds it
    reportRead,      \* history: lines the scan took from the report
    scanFault,       \* history: the scan hit an I/O error
    polls,           \* history: cancellation polls made by the read loop
    scans,           \* history: scans of the report begun
    callerReturned,  \* the thread that called processAlgorithm has left it
    signalAt         \* history: how long the two logs were when the signal the
                     \* run was handed became set

\* processAlgorithm before the launch.
VARIABLES
    inputKind,       \* the input file parameters: "none", "inp", "inpMissing",
                     \* "gpkg", "gpkgMissing", "other"
    exeKind,         \* SWMM_EXE: "given", "givenMissing"; left empty: "found",
                     \* "notFound"
    inp_file,        \* the local inp_file
    swmm_exe,        \* the local swmm_exe
    escapedRun       \* the exception that left processAlgorithm, or "none"

\* _apply_date_overrides on one .inp file.
VARIABLES
    inpContent,      \* the .inp file: its content, as a sequence of pieces of text
    overrides,       \* the overrides supplied (not empty): a map from keys to values
    platform,        \* os.name: "posix" or "nt"
    applied          \* history: the content after each call that met no I/O error

\* Two fetches of the host transport sharing the process-wide setting.
VARIABLES
    fetchers         \* per fetch: where it is, its old_user_agent, its try_count

\* Several processAlgorithm calls of swmm_run_inp_or_gpkg.py.
VARIABLES
    invocations,     \* per call: its RUN_AS_TASK and where its run is
    callerIn         \* the call the calling thread is inside (0: none)

fetchVars == <<transport, headers, userAgent, data, ret_code, error_string, pc,
               try_count, old_user_agent, retry_count, retry_interval, validator,
               reply, escaped, gets, attemptLog, priorUA, calls, dataCall,
               waits, cacheRemovals>>

runVars == <<variant, run_as_task, rpc, procStatus, procCode, childOut, linesRead,
             exit_code, fbCanceled, taskCanceled, feedbackLog, messageLog,
             terminateCalls, raised, report, reportRead, scanFault, polls, scans,
             callerReturned, signalAt>>

pairVars == <<fetchers>>

poolVars == <<invocations, callerIn>>

preVars == <<inputKind, exeKind, inp_file, swmm_exe, escapedRun>>

dateVars == <<inpContent, overrides, platform, applied>>

vars == <<fetchVars, runVars, pairVars, poolVars, preVars, dateVars>>

NoReply == [status |-> NoCode, body |-> <<>>, ctype |-> NoHeader]

\* Downloader.ok()
Ok == ret_code = 200

\* Downloader.__new__ and Downloader.__init__
InitFetch ==
    /\ transport \in {"QGIS", "Requests"}
    /\ headers \in HeaderMaps
    /\ userAgent \in PriorUserAgents
    /\ data = NoData
    /\ ret_code = NoCode
    /\ error_string = ""
    /\ pc = "idle"
    /\ try_count = -1
    /\ old_user_agent = PyNone
    /\ retry_count = 0
    /\ retry_interval = <<>>
    /\ validator = "none"
    /\ reply = NoReply
    /\ escaped = "none"
    /\ gets = 0
    /\ attemptLog = <<>>
    /\ priorUA = userAgent
    /\ calls = 0
    /\ dataCall = 0
    /\ waits = <<>>
    /\ cacheRemovals = 0

\* the caller's choice of arguments: the defaults, or an explicit policy
Policies ==
    {[rc |-> DefaultRetryCount, ri |-> DefaultRetryInterval, explicit |-> FALSE]}
    \cup {[rc |-> n, ri |-> Schedule(l), explicit |-> TRUE] : n \in 0..MaxRetry, l \in 0..MaxRetry}

\* DownloaderQGIS.download, up to the loop: the user-agent override
DownloadQGIS ==
    /\ transport = "QGIS"
    /\ pc \in {"idle", "done"}
    /\ calls < MaxCalls
    /\ \E p \in Policies, v \in Validators :
        /\ retry_count' = p.rc
        /\ retry_interval' = p.ri
        /\ validator' = v
    /\ old_user_agent' = IF UAKey \in DOMAIN headers /\ userAgent # Absent
                         THEN userAgent ELSE PyNone
    /\ userAgent' = IF UAKey \in DOMAIN headers THEN headers[UAKey] ELSE userAgent
    /\ try_count' = -1
    /\ reply' = NoReply
    /\ escaped' = "none"
    /\ gets' = 0
    /\ attemptLog' = <<>>
    /\ priorUA' = userAgent
    /\ calls' = calls + 1
    /\ pc' = "get"
    /\ waits' = <<>>
    /\ cacheRemovals' = 0
    /\ UNCHANGED <<transport, headers, data, ret_code, error_string, dataCall>>
    /\ UNCHANGED <<runVars, pairVars, poolVars, preVars, dateVars>>

\* DownloaderRequests.download: it takes no retry policy and no validator, and
\* makes one attempt
DownloadRequests ==
    /\ transport = "Requests"
    /\ pc \in {"idle", "done"}
    /\ calls < MaxCalls
    /\ pc' = "get"
    /\ escaped' = "none"
    /\ retry_count' = 0
    /\ retry_interval' = <<>>
    /\ validator' = "none"
    /\ old_user_agent' = PyNone
    /\ try_count' = -1
    /\ reply' = NoReply
    /\ gets' = 0
    /\ attemptLog' = <<>>
    /\ priorUA' = userAgent
    /\ calls' = calls + 1
    /\ waits' = <<>>
    /\ cacheRemovals' = 0
    /\ UNCHANGED <<transport, headers, userAgent, data, ret_code, error_string, dataCall>>
    /\ UNCHANGED <<runVars, pairVars, poolVars, preVars, dateVars>>

\* netman.get(req) and the start of the event loop; requests.get(...)
IssueGet ==
    /\ pc = "get"
    /\ pc' = "await"
    /\ try_count' = IF transport = "QGIS" THEN try_count + 1 ELSE try_count
    /\ gets' = gets + 1
    /\ UNCHANGED <<transport, headers, userAgent, data, ret_code, error_string,
                   old_user_agent, retry_count, retry_interval, validator, reply,
                   escaped, attemptLog, priorUA, calls, dataCall, waits,
                   cacheRemovals>>
    /\ UNCHANGED <<runVars, pairVars, poolVars, preVars, dateVars>>

\* how an attempt went: lines 93 and 102
AttemptKind(status, body) ==
    IF status # 200 THEN "fail"
    ELSE IF validator # "none" /\ ~Validate(validator, body) THEN "reject"
    ELSE "pass"

\* the call ends; of its locals the model keeps the reply that the lines after
\* the loop read (the one of a passing attempt)
EndCall(r, exc) ==
    /\ pc' = "done"
    /\ reply' = IF r.status = 200 /\ exc \in {"none", "UnicodeDecodeError"} THEN r ELSE NoReply
    /\ escaped' = exc

\* DownloaderRequests.download, the classification of an ok response
StorePayloadRequests(r) ==
    IF DecodeRaises(r.ctype, r.body)
    THEN /\ EndCall(r, "UnicodeDecodeError")
         /\ UNCHANGED <<data, dataCall>>
    ELSE /\ EndCall(r, "none")
         /\ data' = Classify(r.ctype, r.body)
         /\ dataCall' = calls

\* DownloaderQGIS.download, the lines after the loop: the early return when
\* an error string is set, and the classification
StorePayloadNoEarlyReturn(r) ==
    IF DecodeRaises(r.ctype, r.body)
    THEN /\ EndCall(r, "UnicodeDecodeError")
         /\ UNCHANGED <<data, dataCall>>
    ELSE /\ EndCall(r, "none")
         /\ data' = Classify(r.ctype, r.body)
         /\ dataCall' = calls
StorePayload(r) ==
    IF error_string' # ""
    THEN /\ EndCall(r, "none")
         /\ UNCHANGED <<data, dataCall>>
    ELSE IF DecodeRaises(r.ctype, r.body)
    THEN /\ EndCall(r, "UnicodeDecodeError")
         /\ UNCHANGED <<data, dataCall>>
    ELSE /\ EndCall(r, "none")
         /\ data' = Classify(r.ctype, r.body)
         /\ dataCall' = calls

\* `t = retry_interval[try_count]` (Python indexes from 0)
WaitForFirstEntry(tc, ri) == ri[1]
WaitFor(tc, ri) == ri[tc + 1]

\* does a retry after an attempt of this kind remove the URL from the cache
\* (line 108 is in the validator branch only)
RemovesCacheNever(kind) == FALSE
RemovesCache(kind) == kind = "reject"

\* the retry: the wait is looked up (it may raise IndexError), sleep(t), the
\* removal from the cache after a rejected body, and the `continue`
Retry(r, kind) ==
    IF IndexRaises(try_count, retry_interval)
    THEN /\ EndCall(r, "IndexError")
         /\ UNCHANGED <<data, dataCall, waits, cacheRemovals>>
    ELSE /\ pc' = "get"
         /\ waits' = Append(waits, WaitFor(try_count, retry_interval))
         /\ cacheRemovals' = IF RemovesCache(kind) THEN cacheRemovals + 1
                              ELSE cacheRemovals
         /\ UNCHANGED <<reply, escaped, data, dataCall>>

\* DownloaderQGIS.download, one pass of the loop body after the reply has
\* finished, and the lines after the loop when the pass breaks out of it
ReplyFinishedQGIS ==
    /\ transport = "QGIS"
    /\ pc = "await"
    /\ \E status \in Statuses, body \in Bodies, ctype \in ContentTypes :
        LET r == [status |-> status, body |-> body, ctype |-> ctype]
            kind == AttemptKind(status, body)
        IN  /\ userAgent' = RestoreUserAgent(old_user_agent)
            /\ attemptLog' = Append(attemptLog, kind)
            /\ IF kind = "fail"
               THEN IF AttemptsRemain(try_count, retry_count)
                    THEN /\ ret_code' = status
                         /\ UNCHANGED error_string
                         /\ Retry(r, kind)
                    ELSE /\ ret_code' = status
                         /\ error_string' = ErrorString(status)
                         /\ StorePayload(r)
                         /\ UNCHANGED <<waits, cacheRemovals>>
               ELSE IF kind = "reject"
               THEN IF AttemptsRemain(try_count, retry_count)
                    THEN /\ ret_code' = status
                         /\ UNCHANGED error_string
                         /\ Retry(r, kind)
                    ELSE /\ ret_code' = NoCode
                         /\ error_string' = InvalidDataError
                         /\ StorePayload(r)
                         /\ UNCHANGED <<waits, cacheRemovals>>
               ELSE /\ ret_code' = status
                    /\ UNCHANGED error_string
                    /\ StorePayload(r)
                    /\ UNCHANGED <<waits, cacheRemovals>>
    /\ UNCHANGED <<transport, headers, try_count, old_user_agent, retry_count,
                   retry_interval, validator, gets, priorUA, calls>>
    /\ UNCHANGED <<runVars, pairVars, poolVars, preVars, dateVars>>

\* DownloaderRequests.download after requests.get: it raised (no status was
\* obtained), or it returned a response
ReplyFinishedRequests ==
    /\ transport = "Requests"
    /\ pc = "await"
    /\ \E status \in Statuses, body \in Bodies, ctype \in ContentTypes :
        LET r == [status |-> status, body |-> body, ctype |-> ctype]
        IN  /\ attemptLog' = Append(attemptLog, IF status = 200 THEN "pass" ELSE "fail")
            /\ IF status = NoCode
               THEN /\ EndCall(r, "ConnectionError")
                    /\ UNCHANGED <<ret_code, error_string, data, dataCall>>
               ELSE IF ~ResponseOk(status)
               THEN /\ ret_code' = status
                    /\ error_string' = ResponseText(body)
                    /\ EndCall(r, "none")
                    /\ UNCHANGED <<data, dataCall>>
               ELSE IF ctype = NoHeader
               THEN /\ ret_code' = status
                    /\ EndCall(r, "TypeError")
                    /\ UNCHANGED <<error_string, data, dataCall>>
               ELSE /\ ret_code' = status
                    /\ UNCHANGED error_string
                    /\ StorePayloadRequests(r)
    /\ UNCHANGED <<transport, headers, userAgent, try_count, old_user_agent,
                   retry_count, retry_interval, validator, gets, priorUA, calls,
                   waits, cacheRemovals>>
    /\ UNCHANGED <<runVars, pairVars, poolVars, preVars, dateVars>>

(***************************************************************************)
(* The SWMM run: values and pure helpers.                                  *)
(***************************************************************************)
\* the local exit_code before it is assigned; the child's code before it exits
NoExitCode == -1
\* `return 1` / `exit_code = 1` of the exception handler
FailureExitCode == 1
\* max_rpt_messages
MaxRptMessages == 10
\* the scan meets no I/O error
NoFault == -1

\* exit codes a child yields on its own, and when terminate() ended it (the
\* negative signal number on POSIX, 1 on Windows)
ChildExitCodes == {0, 1}
TerminatedExitCodes == {-15, 1}

\* A line is a sequence of pieces of text; " ", "\t", "\r" and "\n" are the
\* whitespace pieces.
IsSpace(c) == c \in {" ", "\t", "\r", "\n"}

\* str.lstrip(), str.rstrip(), str.strip()
RECURSIVE LStrip(_)
LStrip(s) == IF s # <<>> /\ IsSpace(s[1]) THEN LStrip(Tail(s)) ELSE s
RECURSIVE RStrip(_)
RStrip(s) ==
    IF s # <<>> /\ IsSpace(s[Len(s)]) THEN RStrip(SubSeq(s, 1, Len(s) - 1)) ELSE s
Strip(s) == LStrip(RStrip(s))

\* str.upper(), piece by piece
UpperPiece(c) ==
    IF c \in {"error", "Error"} THEN "ERROR"
    ELSE IF c \in {"warning", "Warning"} THEN "WARNING"
    ELSE IF c = "line" THEN "LINE"
    ELSE IF c = "x" THEN "X"
    ELSE IF c = "[options]" THEN "[OPTIONS]"
    ELSE IF c = "start_date" THEN "START_DATE"
    ELSE c
Upper(s) == [i \in 1..Len(s) |-> UpperPiece(s[i])]

\* A line of the child's output that the text decoding of the pipe rejects
\* (universal_newlines=True decodes strictly).
Undecodable == <<"<invalid bytes>", "\n">>

\* the lines a child writes
OutputLines == {<<"A", "\n">>, <<"\n">>, <<" ", "B", " ", "\n">>, Undecodable}

\* `if line.strip():`
NonBlankIgnoresSpaces(line) == line # <<>>
NonBlank(line) == Strip(line) # <<>>

\* the test that makes a stripped, upper-cased report line a diagnostic line:
\* `'ERROR' in line_upper or 'WARNING' in line_upper` in swmm_run_inp.py,
\* `line_upper.startswith('ERROR') or line_upper.startswith('WARNING')` in
\* swmm_run_inp_or_gpkg.py
IsDiagnostic(v, up) ==
    IF v = "inp"
    THEN \E i \in 1..Len(up) : up[i] \in {"ERROR", "WARNING"}
    ELSE up # <<>> /\ up[1] \in {"ERROR", "WARNING"}

\* `if rpt_message_count >= max_rpt_messages:`
CeilingReachedOffByOne(count) == count > MaxRptMessages
CeilingReached(count) == count >= MaxRptMessages

\* The loop over the report: lines[i..], with `count` diagnostics emitted so
\* far as `out`; the read of line fault+1 raises.  The result: the lines
\* emitted, how many lines were read, whether the scan was truncated, whether
\* it raised.
RECURSIVE ScanLines(_, _, _, _, _, _)
ScanLines(v, lines, fault, i, count, out) ==
    IF i = fault + 1
    THEN [emitted |-> out, read |-> i - 1, truncated |-> FALSE, faulted |-> TRUE]
    ELSE IF i > Len(lines)
    THEN [emitted |-> out, read |-> Len(lines), truncated |-> FALSE, faulted |-> FALSE]
    ELSE LET line_stripped == Strip(lines[i])
         IN  IF line_stripped = <<>>
             THEN ScanLines(v, lines, fault, i + 1, count, out)
             ELSE IF IsDiagnostic(v, Upper(line_stripped))
             THEN IF CeilingReached(count)
                  THEN [emitted |-> out, read |-> i, truncated |-> TRUE, faulted |-> FALSE]
                  ELSE ScanLines(v, lines, fault, i + 1, count + 1,
                                 Append(out, line_stripped))
             ELSE ScanLines(v, lines, fault, i + 1, count, out)

\* the messages the code composes
Ellipsis == <<"...">>
ScanFaultMessage == <<"Unable to scan report for warnings/errors">>
ExceptionMessage == <<"Exception thrown running SWMM">>
NonZeroMessage == <<"SWMM exited with a non-zero exit code">>
TaskNonZeroMessage == <<"SWMM task exited with a non-zero exit code">>
TaskCompletedMessage == <<"SWMM task completed.">>
TaskFailedMessage == <<"SWMM task failed">>
TaskStartedMessage == <<"SWMM task started in background.">>

\* The Python values task_finished is handed: None, or an integer.
PyNoneValue == [isNone |-> TRUE, val |-> 0]
PyInt(n) == [isNone |-> FALSE, val |-> n]
\* `if v:` and `v != 0`
PyTruthy(v) == ~v.isNone /\ v.val # 0
PyNotZero(v) == v.isNone \/ v.val # 0

\* what the scan of a report emits, in order: the diagnostics, the marker of
\* a truncated scan, and the warning of the `except Exception` that encloses
\* the open and the loop
ScanOutputSilentFault(v, rpt, fault) ==
    IF ~rpt.exists THEN [texts |-> <<>>, read |-> 0, faulted |-> FALSE]
    ELSE LET res == ScanLines(v, rpt.lines, fault, 1, 0, <<>>)
         IN  [texts |-> res.emitted
                        \o (IF res.truncated THEN <<Ellipsis>> ELSE <<>>),
              read |-> res.read,
              faulted |-> res.faulted]
ScanOutput(v, rpt, fault) ==
    IF ~rpt.exists THEN [texts |-> <<>>, read |-> 0, faulted |-> FALSE]
    ELSE LET res == ScanLines(v, rpt.lines, fault, 1, 0, <<>>)
         IN  [texts |-> res.emitted
                        \o (IF res.truncated THEN <<Ellipsis>> ELSE <<>>)
                        \o (IF res.faulted THEN <<ScanFaultMessage>> ELSE <<>>),
              read |-> res.read,
              faulted |-> res.faulted]

\* Reports.  A numbered report has MaxReportLines lines: line i is a
\* diagnostic "ERROR #i" or a plain "line #i".
Numbers == <<"#1", "#2", "#3", "#4", "#5", "#6", "#7", "#8", "#9", "#10",
             "#11", "#12", "#13", "#14", "#15", "#16">>
DiagLine(i) == <<"ERROR", " ", Numbers[i], "\n">>
PlainLine(i) == <<"line", " ", Numbers[i], "\n">>
NoFile == [exists |-> FALSE, lines |-> <<>>]
File(lines) == [exists |-> TRUE, lines |-> lines]
NumberedReports ==
    {File([i \in 1..MaxReportLines |-> IF i \in D THEN DiagLine(i) ELSE PlainLine(i)])
     : D \in SUBSET (1..MaxReportLines)}
\* Short reports of blank lines, indented and lower-case keywords, a keyword
\* inside a line, a last line without a line end.
MixedLines == {<<"\n">>, <<" ", "warning", ":", " ", "x", "\n">>,
               <<"x", " ", "ERROR", "\n">>, <<"Error">>}
MixedReports ==
    {File(<<a>>) : a \in MixedLines}
    \cup {File(<<a, b>>) : a \in MixedLines, b \in MixedLines}
\* the report a run finds: none, or a short one
RunReports == {NoFile, File(<<PlainLine(1), DiagLine(2)>>)}

\* the I/O errors a scan can meet: none, or the open or the read of a line raises
ScanFaults(rpt) == {NoFault} \cup (IF rpt.exists THEN 0..Len(rpt.lines) ELSE {})

(***************************************************************************)
(* The SWMM run: state and steps.                                          *)
(***************************************************************************)
\* the run was handed the processing feedback (always in swmm_run_inp.py; in
\* swmm_run_inp_or_gpkg.py unless it runs as a task)
HasFeedback == variant = "inp" \/ ~run_as_task
\* the run was handed the task
HasTask == variant = "gpkg" /\ run_as_task

\* is_canceled(); feedback.isCanceled() in swmm_run_inp.py
IsCanceled == (HasFeedback /\ fbCanceled) \/ (HasTask /\ taskCanceled)

ToFeedback(kind, texts) ==
    IF HasFeedback THEN [i \in 1..Len(texts) |-> [kind |-> kind, text |-> texts[i]]]
    ELSE <<>>
ToMessageLog(level, texts) ==
    [i \in 1..Len(texts) |-> [level |-> level, text |-> texts[i]]]

\* the signal the run polls is not set; it becomes set now
SignalUnset == [set |-> FALSE, log |-> 0, fb |-> 0]
SignalSetNow == [set |-> TRUE, log |-> Len(messageLog), fb |-> Len(feedbackLog)]

\* no fetch of the pair is under way; no processAlgorithm call was made
PairOff == fetchers = <<>>
PoolOff == invocations = <<>> /\ callerIn = 0

\* _apply_date_overrides is not called
DatesOff ==
    /\ inpContent = <<>>
    /\ overrides = <<>>
    /\ platform = "posix"
    /\ applied = <<>>

\* a local that no assignment has bound yet
Unbound == "<unbound>"

\* processAlgorithm has met no error before the launch: an existing .inp
\* file, an existing executable
PreOff ==
    /\ inputKind = "inp"
    /\ exeKind = "given"
    /\ inp_file = "model.inp"
    /\ swmm_exe = "runswmm.exe"
    /\ escapedRun = "none"

RunOff ==
    /\ variant = "gpkg"
    /\ run_as_task = FALSE
    /\ rpc = "off"
    /\ procStatus = "none"
    /\ procCode = NoExitCode
    /\ childOut = <<>>
    /\ linesRead = 0
    /\ exit_code = NoExitCode
    /\ fbCanceled = FALSE
    /\ taskCanceled = FALSE
    /\ feedbackLog = <<>>
    /\ messageLog = <<>>
    /\ terminateCalls = 0
    /\ raised = "none"
    /\ report = NoFile
    /\ reportRead = 0
    /\ scanFault = FALSE
    /\ polls = 0
    /\ scans = 0
    /\ callerReturned = FALSE
    /\ signalAt = SignalUnset

\* no download() call is made on the one instance of Spec
InstanceOff ==
    /\ transport = "QGIS"
    /\ headers = <<>>
    /\ data = NoData
    /\ ret_code = NoCode
    /\ error_string = ""
    /\ pc = "off"
    /\ try_count = -1
    /\ old_user_agent = PyNone
    /\ retry_count = 0
    /\ retry_interval = <<>>
    /\ validator = "none"
    /\ reply = NoReply
    /\ escaped = "none"
    /\ gets = 0
    /\ attemptLog = <<>>
    /\ calls = 0
    /\ dataCall = 0
    /\ waits = <<>>
    /\ cacheRemovals = 0

FetchOff ==
    /\ userAgent = Absent
    /\ priorUA = Absent
    /\ InstanceOff

\* processAlgorithm has resolved its files and composed the command line
InitRun ==
    /\ FetchOff
    /\ PairOff
    /\ PoolOff
    /\ PreOff
    /\ DatesOff
    /\ variant \in {"inp", "gpkg"}
    /\ run_as_task \in (IF variant = "gpkg" THEN BOOLEAN ELSE {FALSE})
    /\ rpc = "call"
    /\ procStatus = "none"
    /\ procCode = NoExitCode
    /\ childOut = <<>>
    /\ linesRead = 0
    /\ exit_code = NoExitCode
    /\ fbCanceled = FALSE
    /\ taskCanceled = FALSE
    /\ feedbackLog = <<>>
    /\ messageLog = <<>>
    /\ terminateCalls = 0
    /\ raised = "none"
    /\ report \in RunReports
    /\ reportRead = 0
    /\ scanFault = FALSE
    /\ polls = 0
    /\ scans = 0
    /\ callerReturned = FALSE
    /\ signalAt = SignalUnset

\* the child has exited with code 0 and the scan is about to begin
InitScan ==
    /\ FetchOff
    /\ PairOff
    /\ PoolOff
    /\ PreOff
    /\ DatesOff
    /\ variant \in {"inp", "gpkg"}
    /\ run_as_task = FALSE
    /\ rpc = "scan"
    /\ procStatus = "exited"
    /\ procCode = 0
    /\ childOut = <<>>
    /\ linesRead = 0
    /\ exit_code = 0
    /\ fbCanceled = FALSE
    /\ taskCanceled = FALSE
    /\ feedbackLog = <<>>
    /\ messageLog = <<>>
    /\ terminateCalls = 0
    /\ raised = "none"
    /\ report \in NumberedReports \cup MixedReports
    /\ reportRead = 0
    /\ scanFault = FALSE
    /\ polls = 0
    /\ scans = 0
    /\ callerReturned = FALSE
    /\ signalAt = SignalUnset

\* the user cancels: the processing feedback's flag is set
UserCancel ==
    /\ rpc \notin {"off", "done"}
    /\ ~fbCanceled
    /\ fbCanceled' = TRUE
    /\ signalAt' = IF HasFeedback THEN SignalSetNow ELSE signalAt
    /\ UNCHANGED <<variant, run_as_task, rpc, procStatus, procCode, childOut,
                   linesRead, exit_code, taskCanceled, feedbackLog, messageLog,
                   terminateCalls, raised, report, reportRead, scanFault>>
    /\ UNCHANGED <<polls, scans, callerReturned>>
    /\ UNCHANGED <<fetchVars, pairVars, poolVars, preVars, dateVars>>

\* the task manager cancels the task
TaskCancel ==
    /\ rpc \notin {"off", "done"}
    /\ HasTask
    /\ ~taskCanceled
    /\ taskCanceled' = TRUE
    /\ signalAt' = SignalSetNow
    /\ UNCHANGED <<variant, run_as_task, rpc, procStatus, procCode, childOut,
                   linesRead, exit_code, fbCanceled, feedbackLog, messageLog,
                   terminateCalls, raised, report, reportRead, scanFault>>
    /\ UNCHANGED <<polls, scans, callerReturned>>
    /\ UNCHANGED <<fetchVars, pairVars, poolVars, preVars, dateVars>>

\* the child writes a line to its output
ChildWrites ==
    /\ procStatus = "running"
    /\ Len(childOut) < MaxLines
    /\ \E line \in OutputLines : childOut' = Append(childOut, line)
    /\ UNCHANGED <<variant, run_as_task, rpc, procStatus, procCode, linesRead,
                   exit_code, fbCanceled, taskCanceled, feedbackLog, messageLog,
                   terminateCalls, raised, report, reportRead, scanFault>>
    /\ UNCHANGED <<polls, scans, callerReturned>>
    /\ UNCHANGED signalAt
    /\ UNCHANGED <<fetchVars, pairVars, poolVars, preVars, dateVars>>

\* the child exits on its own (its end of the pipe closes)
ChildExits ==
    /\ procStatus = "running"
    /\ procStatus' = "exited"
    /\ \E code \in ChildExitCodes : procCode' = code
    /\ UNCHANGED <<variant, run_as_task, rpc, childOut, linesRead, exit_code,
                   fbCanceled, taskCanceled, feedbackLog, messageLog,
                   terminateCalls, raised, report, reportRead, scanFault>>
    /\ UNCHANGED <<polls, scans, callerReturned>>
    /\ UNCHANGED signalAt
    /\ UNCHANGED <<fetchVars, pairVars, poolVars, preVars, dateVars>>

\* processAlgorithm reads RUN_AS_TASK: as a task, the run is handed to the
\* task manager, the submission is logged and processAlgorithm returns; else
\* the calling thread makes the run itself
StartRun ==
    /\ rpc = "call"
    /\ rpc' = "launch"
    /\ callerReturned' = HasTask
    /\ messageLog' = messageLog \o
           (IF HasTask THEN ToMessageLog("Info", <<TaskStartedMessage>>) ELSE <<>>)
    /\ UNCHANGED <<variant, run_as_task, procStatus, procCode, childOut, linesRead,
                   exit_code, fbCanceled, taskCanceled, feedbackLog,
                   terminateCalls, raised, report, reportRead, scanFault>>
    /\ UNCHANGED <<polls, scans>>
    /\ UNCHANGED signalAt
    /\ UNCHANGED <<fetchVars, pairVars, poolVars, preVars, dateVars>>

\* subprocess.Popen(...): the child starts, or the call raises
Launch ==
    /\ rpc = "launch"
    /\ \E started \in BOOLEAN :
        /\ procStatus' = IF started THEN "running" ELSE procStatus
        /\ raised' = IF started THEN raised ELSE "launch"
        /\ rpc' = IF started THEN "read" ELSE "handler"
    /\ UNCHANGED <<variant, run_as_task, procCode, childOut, linesRead, exit_code,
                   fbCanceled, taskCanceled, feedbackLog, messageLog,
                   terminateCalls, report, reportRead, scanFault>>
    /\ UNCHANGED <<polls, scans, callerReturned>>
    /\ UNCHANGED signalAt
    /\ UNCHANGED <<fetchVars, pairVars, poolVars, preVars, dateVars>>

\* is the line followed by a poll of the cancellation signal: the poll stands
\* in the loop body, outside `if line.strip():`
PolledAfterNonBlankOnly(line) == NonBlank(line)
PolledAfter(line) == TRUE

\* one pass of `for line in proc.stdout:` up to the poll: the next line is
\* taken and, unless blank, pushed and logged without its trailing
\* whitespace; an undecodable line raises instead
ReadLine ==
    /\ rpc = "read"
    /\ linesRead < Len(childOut)
    /\ LET line == childOut[linesRead + 1]
       IN  IF line = Undecodable
           THEN /\ raised' = "read"
                /\ rpc' = "unwind"
                /\ UNCHANGED <<linesRead, feedbackLog, messageLog>>
           ELSE /\ linesRead' = linesRead + 1
                /\ rpc' = IF PolledAfter(line) THEN "poll" ELSE "read"
                /\ feedbackLog' = feedbackLog \o
                       (IF NonBlank(line) THEN ToFeedback("pushInfo", <<RStrip(line)>>) ELSE <<>>)
                /\ messageLog' = messageLog \o
                       (IF NonBlank(line) THEN ToMessageLog("Info", <<RStrip(line)>>) ELSE <<>>)
                /\ UNCHANGED raised
    /\ UNCHANGED <<variant, run_as_task, procStatus, procCode, childOut, exit_code,
                   fbCanceled, taskCanceled, terminateCalls, report, reportRead,
                   scanFault>>
    /\ UNCHANGED <<polls, scans, callerReturned>>
    /\ UNCHANGED signalAt
    /\ UNCHANGED <<fetchVars, pairVars, poolVars, preVars, dateVars>>

\* the loop ends: the child has closed its output and every line was read
ReadEOF ==
    /\ rpc = "read"
    /\ procStatus = "exited"
    /\ linesRead = Len(childOut)
    /\ rpc' = "wait"
    /\ UNCHANGED <<variant, run_as_task, procStatus, procCode, childOut, linesRead,
                   exit_code, fbCanceled, taskCanceled, feedbackLog, messageLog,
                   terminateCalls, raised, report, reportRead, scanFault>>
    /\ UNCHANGED <<polls, scans, callerReturned>>
    /\ UNCHANGED signalAt
    /\ UNCHANGED <<fetchVars, pairVars, poolVars, preVars, dateVars>>

\* after the poll: on to the next read, or proc.terminate() and `break`
AfterPollKeepsReading(canceled) == "read"
AfterPoll(canceled) == IF canceled THEN "wait" ELSE "read"

\* the poll that ends each pass of the loop
Poll ==
    /\ rpc = "poll"
    /\ rpc' = AfterPoll(IsCanceled)
    /\ IF IsCanceled
       THEN /\ terminateCalls' = terminateCalls + 1
            /\ \E code \in TerminatedExitCodes :
                /\ procStatus' = "exited"
                /\ procCode' = IF procStatus = "running" THEN code ELSE procCode
       ELSE UNCHANGED <<terminateCalls, procStatus, procCode>>
    /\ polls' = polls + 1
    /\ UNCHANGED <<variant, run_as_task, childOut, linesRead, exit_code, fbCanceled,
                   taskCanceled, feedbackLog, messageLog, raised, report,
                   reportRead, scanFault>>
    /\ UNCHANGED <<scans, callerReturned>>
    /\ UNCHANGED signalAt
    /\ UNCHANGED <<fetchVars, pairVars, poolVars, preVars, dateVars>>

\* what proc.wait() returns
WaitResult(code) == code

\* exit_code = proc.wait(): returns once the child has exited
Wait ==
    /\ rpc = "wait"
    /\ procStatus = "exited"
    /\ exit_code' = WaitResult(procCode)
    /\ rpc' = "scan"
    /\ UNCHANGED <<variant, run_as_task, procStatus, procCode, childOut, linesRead,
                   fbCanceled, taskCanceled, feedbackLog, messageLog,
                   terminateCalls, raised, report, reportRead, scanFault>>
    /\ UNCHANGED <<polls, scans, callerReturned>>
    /\ UNCHANGED signalAt
    /\ UNCHANGED <<fetchVars, pairVars, poolVars, preVars, dateVars>>

\* proc.wait() raises
WaitRaises ==
    /\ rpc = "wait"
    /\ raised' = "wait"
    /\ rpc' = "unwind"
    /\ UNCHANGED <<variant, run_as_task, procStatus, procCode, childOut, linesRead,
                   exit_code, fbCanceled, taskCanceled, feedbackLog, messageLog,
                   terminateCalls, report, reportRead, scanFault>>
    /\ UNCHANGED <<polls, scans, callerReturned>>
    /\ UNCHANGED signalAt
    /\ UNCHANGED <<fetchVars, pairVars, poolVars, preVars, dateVars>>

\* an exception leaves the `with` block: Popen.__exit__ closes the pipe and
\* waits for the child to exit
Unwind ==
    /\ rpc = "unwind"
    /\ procStatus = "exited"
    /\ rpc' = "handler"
    /\ UNCHANGED <<variant, run_as_task, procStatus, procCode, childOut, linesRead,
                   exit_code, fbCanceled, taskCanceled, feedbackLog, messageLog,
                   terminateCalls, raised, report, reportRead, scanFault>>
    /\ UNCHANGED <<polls, scans, callerReturned>>
    /\ UNCHANGED signalAt
    /\ UNCHANGED <<fetchVars, pairVars, poolVars, preVars, dateVars>>

\* the exit code the handler yields, whatever code the child has yielded
HandlerYieldsChildCode(code) == code
HandlerYields(code) == FailureExitCode

\* `except Exception as e:`: the error is reported and logged; the run yields
\* 1 (swmm_run_inp_or_gpkg.py returns at once, swmm_run_inp.py goes on)
HandleException ==
    /\ rpc = "handler"
    /\ feedbackLog' = feedbackLog \o ToFeedback("reportError", <<ExceptionMessage>>)
    /\ messageLog' = messageLog \o ToMessageLog("Critical", <<ExceptionMessage>>)
    /\ exit_code' = HandlerYields(procCode)
    /\ rpc' = IF variant = "inp" THEN "scan" ELSE "finish"
    /\ UNCHANGED <<variant, run_as_task, procStatus, procCode, childOut, linesRead,
                   fbCanceled, taskCanceled, terminateCalls, raised, report,
                   reportRead, scanFault>>
    /\ UNCHANGED <<polls, scans, callerReturned>>
    /\ UNCHANGED signalAt
    /\ UNCHANGED <<fetchVars, pairVars, poolVars, preVars, dateVars>>

\* the report of a non-zero exit code to the caller's feedback and the log
NonZeroReport ==
    IF exit_code # 0
    THEN [fb |-> ToFeedback("fatalError", <<NonZeroMessage>>),
          log |-> ToMessageLog("Critical", <<NonZeroMessage>>)]
    ELSE [fb |-> <<>>, log |-> <<>>]

\* the scan of the report: _scan_report in swmm_run_inp_or_gpkg.py; in
\* swmm_run_inp.py the lines that follow the run (the report of a non-zero
\* exit code, then the scan)
Scan ==
    /\ rpc = "scan"
    /\ \E fault \in ScanFaults(report) :
      \E res \in {ScanOutput(variant, report, fault)} :
        LET before == IF variant = "inp" THEN NonZeroReport
                      ELSE [fb |-> <<>>, log |-> <<>>]
        IN  /\ feedbackLog' = feedbackLog \o before.fb \o ToFeedback("pushWarning", res.texts)
            /\ messageLog' = messageLog \o before.log \o ToMessageLog("Warning", res.texts)
            /\ reportRead' = res.read
            /\ scanFault' = res.faulted
    /\ rpc' = IF variant = "inp" THEN "done" ELSE "finish"
    /\ scans' = scans + 1
    /\ callerReturned' = IF variant = "inp" THEN TRUE ELSE callerReturned
    /\ UNCHANGED <<variant, run_as_task, procStatus, procCode, childOut, linesRead,
                   exit_code, fbCanceled, taskCanceled, terminateCalls, raised,
                   report>>
    /\ UNCHANGED polls
    /\ UNCHANGED signalAt
    /\ UNCHANGED <<fetchVars, pairVars, poolVars, preVars, dateVars>>

\* QgsTask.fromFunction(task_name, run_task, on_finished=task_finished): when
\* run_task has returned, the host's task wrapper calls
\* on_finished(exception, result), the exception (None here) first; its
\* documented signature is on_finished(exception, result=None), and the
\* wrapper may leave out a result that is false in Python (the exit code 0)
OnFinishedCalls(returned) ==
    {<<PyNoneValue, PyInt(returned)>>}
    \cup (IF returned = 0 THEN {<<PyNoneValue>>} ELSE {})

\* the body of task_finished(result, exception)
TaskFinished(result, exception) ==
    IF PyTruthy(exception) THEN ToMessageLog("Critical", <<TaskFailedMessage>>)
    ELSE IF PyNotZero(result) THEN ToMessageLog("Critical", <<TaskNonZeroMessage>>)
    ELSE ToMessageLog("Info", <<TaskCompletedMessage>>)

\* the call binds its arguments by position to (result, exception); with one
\* argument it raises TypeError before the body runs
TaskFinishedCalled(args) ==
    IF Len(args) < 2 THEN <<>> ELSE TaskFinished(args[1], args[2])

\* swmm_run_inp_or_gpkg.py, after _run_swmm_process has returned: the
\* caller's report of a non-zero exit code, or the task's on_finished call
\* (run_task lets no exception of the run out, so the task ends without one)
Finish ==
    /\ rpc = "finish"
    /\ rpc' = "done"
    /\ IF run_as_task
       THEN /\ \E args \in OnFinishedCalls(exit_code) :
                    messageLog' = messageLog \o TaskFinishedCalled(args)
            /\ UNCHANGED <<feedbackLog, callerReturned>>
       ELSE /\ feedbackLog' = feedbackLog \o NonZeroReport.fb
            /\ messageLog' = messageLog \o NonZeroReport.log
            /\ callerReturned' = TRUE
    /\ UNCHANGED <<variant, run_as_task, procStatus, procCode, childOut, linesRead,
                   exit_code, fbCanceled, taskCanceled, terminateCalls, raised,
                   report, reportRead, scanFault>>
    /\ UNCHANGED <<polls, scans>>
    /\ UNCHANGED signalAt
    /\ UNCHANGED <<fetchVars, pairVars, poolVars, preVars, dateVars>>

(***************************************************************************)
(* processAlgorithm before the launch.  feedback.reportError(message,      *)
(* fatalError=True) reports and returns: in both files every such call is  *)
(* followed by a QgsMessageLog call and by the rest of processAlgorithm;   *)
(* neither file returns or raises after it.                                *)
(***************************************************************************)
InputMissingMessage == <<"SWMM input file does not exist">>
UnsupportedTypeMessage == <<"Unsupported input type">>
ConversionFailedMessage == <<"Exception thrown converting GeoPackage to SWMM">>
ExeMissingMessage == <<"SWMM executable does not exist">>
ExeNotFoundMessage == <<"SWMM executable not provided and swmm5 was not found on PATH.">>
RunningMessage == <<"Running SWMM">>

PreLaunchMessages == {InputMissingMessage, UnsupportedTypeMessage, ConversionFailedMessage,
                      ExeMissingMessage, ExeNotFoundMessage}

\* the input parameters a caller passes: no file at all, a .inp file or a
\* GeoPackage (each existing or missing) and, where the type is read from
\* the suffix, an existing file of another type
InputKinds(v) ==
    {"none", "inp", "inpMissing", "gpkg", "gpkgMissing"}
    \cup (IF v = "gpkg" THEN {"other"} ELSE {})
ExeKinds == {"given", "givenMissing", "found", "notFound"}

\* self.feedback.reportError(message, fatalError=True) and the
\* QgsMessageLog call that follows it
FatalToFeedback(texts) == [i \in 1..Len(texts) |-> [kind |-> "fatalError", text |-> texts[i]]]

\* The resolution of the input file.  converted: gis_to_swmm returns
\* (else it raises); copies: OUTPUT_BASENAME names another file, so that
\* _copy_inp_if_needed copies the input.  The result: the fatal errors
\* reported, the local inp_file, the exception that escapes.
\* swmm_run_inp_or_gpkg.py, lines 164-193:
ResolveInputGpkg(kind, converted, copies) ==
    LET missing == IF kind \in {"none", "inpMissing", "gpkgMissing"}
                   THEN <<InputMissingMessage>> ELSE <<>>
    IN  IF kind \in {"gpkg", "gpkgMissing"}
        THEN IF converted
             THEN [errors |-> missing, inp_file |-> "model.inp", escapes |-> "none"]
             ELSE [errors |-> missing \o <<ConversionFailedMessage>>,
                   inp_file |-> Unbound, escapes |-> "none"]
        ELSE IF kind \in {"inp", "inpMissing"}
        THEN IF copies /\ kind = "inpMissing"
             THEN [errors |-> missing, inp_file |-> Unbound, escapes |-> "FileNotFoundError"]
             ELSE [errors |-> missing, inp_file |-> "model.inp", escapes |-> "none"]
        ELSE [errors |-> missing \o <<UnsupportedTypeMessage>>,
              inp_file |-> Unbound, escapes |-> "none"]
\* swmm_run_inp.py, lines 131-158:
ResolveInputInp(kind, converted) ==
    LET missing == IF kind \in {"none", "inpMissing", "gpkgMissing"}
                   THEN <<InputMissingMessage>> ELSE <<>>
    IN  IF kind \in {"gpkg", "gpkgMissing"}
        THEN [errors |-> missing \o (IF converted THEN <<>> ELSE <<ConversionFailedMessage>>),
              inp_file |-> "model.inp", escapes |-> "none"]
        ELSE [errors |-> missing,
              inp_file |-> IF kind = "none" THEN "" ELSE "model.inp",
              escapes |-> "none"]

\* an exception leaves processAlgorithm
Escape(exc) ==
    /\ rpc' = "escaped"
    /\ escapedRun' = exc
    /\ callerReturned' = TRUE

\* processAlgorithm, the input file
ResolveInput ==
    /\ rpc = "entry"
    /\ \E converted \in BOOLEAN, copies \in BOOLEAN :
        LET res == IF variant = "gpkg" THEN ResolveInputGpkg(inputKind, converted, copies)
                   ELSE ResolveInputInp(inputKind, converted)
        IN  /\ feedbackLog' = feedbackLog \o FatalToFeedback(res.errors)
            /\ messageLog' = messageLog \o ToMessageLog("Critical", res.errors)
            /\ inp_file' = res.inp_file
            /\ IF res.escapes # "none"
               THEN Escape(res.escapes)
               ELSE /\ rpc' = "exe"
                    /\ UNCHANGED <<escapedRun, callerReturned>>
    /\ UNCHANGED <<variant, run_as_task, procStatus, procCode, childOut, linesRead,
                   exit_code, fbCanceled, taskCanceled, terminateCalls, raised,
                   report, reportRead, scanFault, polls, scans>>
    /\ UNCHANGED <<inputKind, exeKind, swmm_exe>>
    /\ UNCHANGED signalAt
    /\ UNCHANGED <<fetchVars, pairVars, poolVars, dateVars>>

\* the executable: SWMM_EXE, or the one _find_runswmm_exe or shutil.which
\* finds (None when they find none)
ResolveExeErrors(kind) ==
    IF kind = "givenMissing" THEN <<ExeMissingMessage>>
    ELSE IF kind = "notFound" THEN <<ExeNotFoundMessage>>
    ELSE <<>>
ResolveExeValue(kind) == IF kind = "notFound" THEN PyNone ELSE "runswmm.exe"

\* processAlgorithm, the executable
ResolveExe ==
    /\ rpc = "exe"
    /\ rpc' = "compose"
    /\ swmm_exe' = ResolveExeValue(exeKind)
    /\ feedbackLog' = feedbackLog \o FatalToFeedback(ResolveExeErrors(exeKind))
    /\ messageLog' = messageLog \o ToMessageLog("Critical", ResolveExeErrors(exeKind))
    /\ UNCHANGED <<variant, run_as_task, procStatus, procCode, childOut, linesRead,
                   exit_code, fbCanceled, taskCanceled, terminateCalls, raised,
                   report, reportRead, scanFault, polls, scans, callerReturned>>
    /\ UNCHANGED <<inputKind, exeKind, inp_file, escapedRun>>
    /\ UNCHANGED signalAt
    /\ UNCHANGED <<fetchVars, pairVars, poolVars, dateVars>>

\* What the lines from the report and output paths to the 'Running SWMM'
\* message raise.  Path(inp_file) reads the local (UnboundLocalError when no
\* branch has bound it); Path('').with_suffix(...) raises ValueError, and
\* swmm_run_inp.py calls it unless both output paths are passed explicitly;
\* " ".join(args) raises TypeError when swmm_exe is None.
ComposeRaises(inp, exe, explicitOutputs) ==
    IF inp = Unbound THEN "UnboundLocalError"
    ELSE IF inp = "" /\ ~explicitOutputs THEN "ValueError"
    ELSE IF exe = PyNone THEN "TypeError"
    ELSE "none"

\* processAlgorithm, from the report and output paths to the 'Running SWMM'
\* message (the date overrides of swmm_run_inp_or_gpkg.py rewrite the .inp
\* file and let no exception out)
Compose ==
    /\ rpc = "compose"
    /\ \E explicitOutputs \in (IF variant = "inp" THEN BOOLEAN ELSE {FALSE}) :
        LET exc == ComposeRaises(inp_file, swmm_exe, explicitOutputs)
        IN  IF exc # "none"
            THEN /\ Escape(exc)
                 /\ UNCHANGED feedbackLog
            ELSE /\ rpc' = "call"
                 /\ feedbackLog' = Append(feedbackLog, [kind |-> "pushInfo", text |-> RunningMessage])
                 /\ UNCHANGED <<escapedRun, callerReturned>>
    /\ UNCHANGED <<variant, run_as_task, procStatus, procCode, childOut, linesRead,
                   exit_code, fbCanceled, taskCanceled, messageLog, terminateCalls,
                   raised, report, reportRead, scanFault, polls, scans>>
    /\ UNCHANGED <<inputKind, exeKind, inp_file, swmm_exe>>
    /\ UNCHANGED signalAt
    /\ UNCHANGED <<fetchVars, pairVars, poolVars, dateVars>>

\* processAlgorithm is entered
InitPre ==
    /\ FetchOff
    /\ PairOff
    /\ PoolOff
    /\ variant \in {"inp", "gpkg"}
    /\ run_as_task \in (IF variant = "gpkg" THEN BOOLEAN ELSE {FALSE})
    /\ rpc = "entry"
    /\ procStatus = "none"
    /\ procCode = NoExitCode
    /\ childOut = <<>>
    /\ linesRead = 0
    /\ exit_code = NoExitCode
    /\ fbCanceled = FALSE
    /\ taskCanceled = FALSE
    /\ feedbackLog = <<>>
    /\ messageLog = <<>>
    /\ terminateCalls = 0
    /\ raised = "none"
    /\ report \in RunReports
    /\ reportRead = 0
    /\ scanFault = FALSE
    /\ polls = 0
    /\ scans = 0
    /\ callerReturned = FALSE
    /\ signalAt = SignalUnset
    /\ inputKind \in InputKinds(variant)
    /\ exeKind \in ExeKinds
    /\ inp_file = Unbound
    /\ swmm_exe = Unbound
    /\ escapedRun = "none"
    /\ DatesOff

(***************************************************************************)
(* _apply_date_overrides of swmm_run_inp_or_gpkg.py.  A file is a sequence *)
(* of pieces of text: words, the whitespace pieces and the line ends "\n"  *)
(* and "\r\n".  Two pieces that follow one another without whitespace      *)
(* between them are one word of the text.                                  *)
(***************************************************************************)
\* the keys, in the order key_to_value is filled
OptionKeys == <<"START_DATE", "START_TIME", "END_DATE", "END_TIME">>

OptionsHeader == "[OPTIONS]"
\* the pieces that start with '[' and end with ']'
HeaderPieces == {"[TITLE]", "[OPTIONS]", "[options]"}

\* open(inp_file, 'r', ...): the text layer reads "\r\n" and "\r" as "\n"
ReadTextMode(content) ==
    [i \in 1..Len(content) |-> IF content[i] \in {"\r\n", "\r"} THEN "\n" ELSE content[i]]

\* open(inp_file, 'w', ...): the text layer writes "\n" as os.linesep
WriteTextMode(content, os) ==
    [i \in 1..Len(content) |-> IF content[i] = "\n" /\ os = "nt" THEN "\r\n" ELSE content[i]]

\* str.splitlines(True): the lines, each with its line end
RECURSIVE SplitLines(_, _)
SplitLines(content, cur) ==
    IF content = <<>> THEN (IF cur = <<>> THEN <<>> ELSE <<cur>>)
    ELSE IF Head(content) \in {"\n", "\r\n", "\r"}
    THEN <<Append(cur, Head(content))>> \o SplitLines(Tail(content), <<>>)
    ELSE SplitLines(Tail(content), Append(cur, Head(content)))

\* inp.writelines(lines)
RECURSIVE JoinLines(_)
JoinLines(lines) == IF lines = <<>> THEN <<>> ELSE Head(lines) \o JoinLines(Tail(lines))

\* lines 357-361: "\r\n" if a line ends with it
NewlineOf(lines) ==
    IF \E i \in 1..Len(lines) : lines[i][Len(lines[i])] = "\r\n" THEN "\r\n" ELSE "\n"

\* text.startswith('[') and text.endswith(']')
IsSectionHeader(text) ==
    text # <<>> /\ text[1] \in HeaderPieces /\ text[Len(text)] \in HeaderPieces

\* lines 363-372, from line i on (lines are counted from 1; 0: None): the
\* line of the [OPTIONS] header and the line of the header that follows it
RECURSIVE FindSection(_, _, _)
FindSection(lines, i, start) ==
    IF i > Len(lines) THEN [start |-> start, end |-> 0]
    ELSE LET text == Strip(lines[i])
         IN  IF Upper(text) = <<OptionsHeader>> THEN FindSection(lines, i + 1, i)
             ELSE IF start # 0 /\ IsSectionHeader(text) THEN [start |-> start, end |-> i]
             ELSE FindSection(lines, i + 1, start)

\* lines 374-379: a missing section is appended; end is the line before
\* which new option lines are inserted
SectionOf(lines, newline) ==
    LET found == FindSection(lines, 1, 0)
    IN  IF found.start = 0
        THEN [lines |-> Append(lines, <<OptionsHeader, newline>>),
              start |-> Len(lines) + 1, end |-> Len(lines) + 2]
        ELSE IF found.end = 0
        THEN [lines |-> lines, start |-> found.start, end |-> Len(lines) + 1]
        ELSE [lines |-> lines, start |-> found.start, end |-> found.end]

\* text.split()[0]
RECURSIVE FirstWord(_)
FirstWord(text) ==
    IF text = <<>> \/ IsSpace(text[1]) THEN <<>>
    ELSE <<text[1]>> \o FirstWord(Tail(text))

\* is the line an option line of this key: it is not blank, no comment, and
\* its first word, upper-cased, is the key
IsOptionLine(line, key) ==
    LET text == Strip(line)
    IN  text # <<>> /\ text[1] # ";" /\ Upper(FirstWord(text)) = <<key>>

\* option_line_index[key] (lines 391-399): the last such line of the
\* section, 0 when the key is not in the index
OptionLineIndex(lines, start, end, key) ==
    LET at == {i \in (start + 1)..(end - 1) : IsOptionLine(lines[i], key)}
    IN  IF at = {} THEN 0 ELSE CHOOSE i \in at : \A j \in at : j <= i

\* existing_line[:len(existing_line) - len(existing_line.lstrip())]
RECURSIVE LeadingSpace(_)
LeadingSpace(line) ==
    IF line # <<>> /\ IsSpace(line[1]) THEN <<line[1]>> \o LeadingSpace(Tail(line))
    ELSE <<>>

FourSpaces == <<" ", " ", " ", " ">>

\* _format_option_line(key, value): a new line
FormatNewOptionLine(key, value, newline) == <<key>> \o FourSpaces \o <<value, newline>>
\* _format_option_line(key, value, existing_line)
FormatOptionLine(key, value, existing_line, newline) ==
    LeadingSpace(existing_line) \o <<key>>
    \o (IF \E i \in 1..Len(existing_line) : existing_line[i] = "\t"
        THEN <<"\t">> ELSE FourSpaces)
    \o <<value, newline>>

\* lines.insert(at - 1, line), at counted from 1
InsertLine(lines, at, line) ==
    SubSeq(lines, 1, at - 1) \o <<line>> \o SubSeq(lines, at, Len(lines))

\* lines 408-414, for the keys that are left
RECURSIVE ApplyKeys(_, _, _, _, _, _)
ApplyKeys(lines, end, keys, index, ov, newline) ==
    IF keys = <<>> THEN lines
    ELSE LET key == Head(keys)
         IN  IF key \notin DOMAIN ov
             THEN ApplyKeys(lines, end, Tail(keys), index, ov, newline)
             ELSE IF index[key] # 0
             THEN ApplyKeys([lines EXCEPT ![index[key]] =
                                FormatOptionLine(key, ov[key], lines[index[key]], newline)],
                            end, Tail(keys), index, ov, newline)
             ELSE ApplyKeys(InsertLine(lines, end, FormatNewOptionLine(key, ov[key], newline)),
                            end + 1, Tail(keys), index, ov, newline)

\* _apply_date_overrides when the file is read and written without error:
\* the content it leaves
ApplyDateOverrides(content, ov, os) ==
    LET lines == SplitLines(ReadTextMode(content), <<>>)
        newline == NewlineOf(lines)
        section == SectionOf(lines, newline)
        index == [k \in {OptionKeys[i] : i \in 1..Len(OptionKeys)} |->
                     OptionLineIndex(section.lines, section.start, section.end, k)]
    IN  WriteTextMode(JoinLines(ApplyKeys(section.lines, section.end, OptionKeys,
                                          index, ov, newline)), os)

\* Files.  The lines of a file, without their line ends: section headers, an
\* option that is no date, a START_DATE line with a tab, one in lower case
\* with leading whitespace, a comment, a blank line.
InpLines ==
    {<<"[TITLE]">>, <<"[options]">>, <<"FLOW_UNITS", " ", "CFS">>,
     <<"START_DATE", "\t", "01/01/2020">>, <<" ", "start_date", " ", "12/31/2019">>,
     <<";", "START_DATE">>, <<>>}

\* the content of a file of these lines with this line end; the last line
\* has a line end or not
RECURSIVE FileContent(_, _, _)
FileContent(lines, eol, final) ==
    IF lines = <<>> THEN <<>>
    ELSE Head(lines)
         \o (IF Len(lines) > 1 \/ final THEN <<eol>> ELSE <<>>)
         \o FileContent(Tail(lines), eol, final)

InpFiles ==
    {FileContent(lines, eol, final) :
        lines \in UNION {[1..n -> InpLines] : n \in 0..MaxInpLines},
        eol \in {"\n", "\r\n"}, final \in BOOLEAN}

\* the overrides a caller supplies (a parameter left empty is not supplied)
OverrideSets ==
    {[k \in {"START_DATE"} |-> "01/01/2020"],
     [k \in {"END_DATE"} |-> "01/02/2020"],
     [k \in {"START_TIME", "END_DATE"} |-> IF k = "START_TIME" THEN "00:00:00" ELSE "01/02/2020"],
     [k \in {"START_DATE", "START_TIME", "END_DATE", "END_TIME"} |->
         IF k = "START_DATE" THEN "01/01/2020"
         ELSE IF k = "END_DATE" THEN "01/02/2020"
         ELSE IF k = "START_TIME" THEN "00:00:00" ELSE "12:00:00"]}

InitDates ==
    /\ FetchOff
    /\ RunOff
    /\ PairOff
    /\ PoolOff
    /\ PreOff
    /\ inpContent \in InpFiles
    /\ overrides \in OverrideSets
    /\ platform \in {"posix", "nt"}
    /\ applied = <<>>

\* one call of _apply_date_overrides: the read of the file raises, or the
\* open for writing does (a warning is logged and the file is as it was), or
\* the file is rewritten
ApplyOverrides ==
    /\ Len(applied) < MaxApplications
    /\ \E fault \in {"none", "read", "write"} :
        IF fault = "none"
        THEN /\ inpContent' = ApplyDateOverrides(inpContent, overrides, platform)
             /\ applied' = Append(applied, inpContent')
        ELSE UNCHANGED <<inpContent, applied>>
    /\ UNCHANGED <<overrides, platform>>
    /\ UNCHANGED <<fetchVars, runVars, pairVars, poolVars, preVars>>

(***************************************************************************)
(* Several processAlgorithm calls of swmm_run_inp_or_gpkg.py.  The calling *)
(* thread makes the calls one after another; a call with RUN_AS_TASK hands *)
(* its run to the task manager, which runs it on a thread of its own.  A   *)
(* run is at "submitted" (a task not yet begun), "launch", "running" (its  *)
(* child process runs), "exited" (the child has exited) or "done".         *)
(***************************************************************************)
InitPool ==
    /\ FetchOff
    /\ RunOff
    /\ PairOff
    /\ PreOff
    /\ DatesOff
    /\ invocations = <<>>
    /\ callerIn = 0

\* where processAlgorithm leaves the calling thread: _start_swmm_task returns
\* once the task is added, _run_swmm_process once the run is over
CallerAfterCall(task, i) == IF task THEN 0 ELSE i

\* processAlgorithm, lines 229-233: nothing in it looks at the runs already
\* under way
ProcessAlgorithm ==
    /\ callerIn = 0
    /\ Len(invocations) < MaxInvocations
    /\ \E task \in BOOLEAN :
        /\ invocations' = Append(invocations,
               [task |-> task, stage |-> IF task THEN "submitted" ELSE "launch"])
        /\ callerIn' = CallerAfterCall(task, Len(invocations) + 1)
    /\ UNCHANGED <<fetchVars, runVars, pairVars, preVars, dateVars>>

\* the task manager begins a submitted task: run_task
RunTask ==
    /\ \E i \in 1..Len(invocations) :
        /\ invocations[i].stage = "submitted"
        /\ invocations' = [invocations EXCEPT ![i].stage = "launch"]
    /\ UNCHANGED callerIn
    /\ UNCHANGED <<fetchVars, runVars, pairVars, preVars, dateVars>>

\* the end of _run_swmm_process and what follows it: the caller's thread
\* leaves processAlgorithm, or task_finished is called
PoolReturn(i) ==
    /\ invocations' = [invocations EXCEPT ![i].stage = "done"]
    /\ callerIn' = IF invocations[i].task THEN callerIn ELSE 0

\* subprocess.Popen(...): the child starts, or the call raises and the run is over
PoolLaunch ==
    /\ \E i \in 1..Len(invocations) :
        /\ invocations[i].stage = "launch"
        /\ \/ /\ invocations' = [invocations EXCEPT ![i].stage = "running"]
              /\ UNCHANGED callerIn
           \/ PoolReturn(i)
    /\ UNCHANGED <<fetchVars, runVars, pairVars, preVars, dateVars>>

\* the child exits, on its own or terminated
PoolChildExits ==
    /\ \E i \in 1..Len(invocations) :
        /\ invocations[i].stage = "running"
        /\ invocations' = [invocations EXCEPT ![i].stage = "exited"]
    /\ UNCHANGED callerIn
    /\ UNCHANGED <<fetchVars, runVars, pairVars, preVars, dateVars>>

\* proc.wait() returns, the report is scanned, the run is over
PoolRunEnds ==
    /\ \E i \in 1..Len(invocations) :
        /\ invocations[i].stage = "exited"
        /\ PoolReturn(i)
    /\ UNCHANGED <<fetchVars, runVars, pairVars, preVars, dateVars>>

(***************************************************************************)
(* Two fetches of DownloaderQGIS, each with a User-Agent header, whose     *)
(* steps interleave (download() takes no lock, and it runs an event loop   *)
(* while it waits for the reply).  A fetch is at "contains" (line 74),     *)
(* "setValue" (line 76), "get" (line 82), "await" (line 85) or "done".     *)
(***************************************************************************)
\* the User-Agent header values the fetches are constructed with
PairAgents == {"TUFLOW", "ARR2016"}

Fetches == {1, 2}

InitPair ==
    /\ InstanceOff
    /\ RunOff
    /\ PoolOff
    /\ PreOff
    /\ DatesOff
    /\ userAgent \in PriorUserAgents
    /\ priorUA = userAgent
    /\ fetchers \in [Fetches -> {[pc |-> "contains", agent |-> a, old_user_agent |-> PyNone,
                                   try_count |-> -1] : a \in PairAgents}]

PairFrame == UNCHANGED <<transport, headers, data, ret_code, error_string, pc,
                         try_count, old_user_agent, retry_count, retry_interval,
                         validator, reply, escaped, gets, attemptLog, priorUA, calls,
                         dataCall, waits, cacheRemovals, runVars, poolVars, preVars,
                         dateVars>>

\* lines 74-75: the prior value is read if the setting exists
PairContains ==
    /\ \E i \in Fetches :
        /\ fetchers[i].pc = "contains"
        /\ fetchers' = [fetchers EXCEPT
               ![i].pc = "setValue",
               ![i].old_user_agent = IF userAgent # Absent THEN userAgent ELSE PyNone]
    /\ UNCHANGED userAgent
    /\ PairFrame

\* line 76: the setting is overwritten with the header's value
PairSetValue ==
    /\ \E i \in Fetches :
        /\ fetchers[i].pc = "setValue"
        /\ userAgent' = fetchers[i].agent
        /\ fetchers' = [fetchers EXCEPT ![i].pc = "get"]
    /\ PairFrame

\* lines 81-85: the GET is issued and the event loop entered
PairGet ==
    /\ \E i \in Fetches :
        /\ fetchers[i].pc = "get"
        /\ fetchers' = [fetchers EXCEPT ![i].pc = "await",
                                        ![i].try_count = fetchers[i].try_count + 1]
    /\ UNCHANGED userAgent
    /\ PairFrame

\* lines 86-112: the reply has finished; the setting is restored; the
\* attempt passes or was the last one, or a retry follows
PairReplyFinished ==
    /\ \E i \in Fetches :
        /\ fetchers[i].pc = "await"
        /\ userAgent' = RestoreUserAgent(fetchers[i].old_user_agent)
        /\ \E again \in {b \in BOOLEAN : b => AttemptsRemain(fetchers[i].try_count, MaxRetry)} :
            fetchers' = [fetchers EXCEPT ![i].pc = IF again THEN "get" ELSE "done"]
    /\ PairFrame

(***************************************************************************)
(* Specifications.                                                         *)
(***************************************************************************)
Init == InitFetch /\ RunOff /\ PairOff /\ PoolOff /\ PreOff /\ DatesOff

Next ==
    \/ DownloadQGIS
    \/ DownloadRequests
    \/ IssueGet
    \/ ReplyFinishedQGIS
    \/ ReplyFinishedRequests

Spec == Init /\ [][Next]_vars

\* One download() call of the host transport on a fresh instance, with the
\* scheduling the code has: the call's own step is taken, and the event loop
\* returns, every reply finishing in the end.
InitLive == Init /\ transport = "QGIS"

FirstDownloadQGIS == calls = 0 /\ DownloadQGIS

NextLive ==
    \/ FirstDownloadQGIS
    \/ IssueGet
    \/ ReplyFinishedQGIS

SpecLive ==
    /\ InitLive
    /\ [][NextLive]_vars
    /\ WF_vars(IssueGet)
    /\ WF_vars(ReplyFinishedQGIS)

NextRun ==
    \/ StartRun
    \/ UserCancel
    \/ TaskCancel
    \/ ChildWrites
    \/ ChildExits
    \/ Launch
    \/ ReadLine
    \/ ReadEOF
    \/ Poll
    \/ Wait
    \/ WaitRaises
    \/ Unwind
    \/ HandleException
    \/ Scan
    \/ Finish

SpecRun == InitRun /\ [][NextRun]_vars

NextScan ==
    \/ Scan
    \/ Finish

SpecScan == InitScan /\ [][NextScan]_vars

\* the steps before the launch, the launch, and the way of a launch that
\* raised to the end of processAlgorithm
NextPre ==
    \/ ResolveInput
    \/ ResolveExe
    \/ Compose
    \/ StartRun
    \/ Launch
    \/ HandleException
    \/ Scan
    \/ Finish

SpecPre == InitPre /\ [][NextPre]_vars

NextDates ==
    \/ ApplyOverrides

SpecDates == InitDates /\ [][NextDates]_vars

NextPool ==
    \/ ProcessAlgorithm
    \/ RunTask
    \/ PoolLaunch
    \/ PoolChildExits
    \/ PoolRunEnds

SpecPool == InitPool /\ [][NextPool]_vars

NextPair ==
    \/ PairContains
    \/ PairSetValue
    \/ PairGet
    \/ PairReplyFinished

SpecPair == InitPair /\ [][NextPair]_vars

(***************************************************************************)
(* Claims about the downloader, checked under Spec.                        *)
(***************************************************************************)
AllAttempts(kind) == \A i \in 1..Len(attemptLog) : attemptLog[i] = kind

\* C1: when a call has ended and every GET attempt of it failed (status not
\* 200, or no status), under a policy of N retries whose wait schedule is long
\* enough, the call issued exactly N+1 GETs, returned normally, and the result
\* is non-ok with a non-empty error string; on either transport.
C1_AlwaysFailingFetch ==
    (/\ pc = "done"
     /\ attemptLog # <<>>
     /\ AllAttempts("fail")
     /\ Len(retry_interval) >= retry_count)
    => (/\ gets = retry_count + 1
        /\ escaped = "none"
        /\ ~Ok
        /\ error_string # "")

\* C2: when a call has returned and every attempt of it was a 200 response
\* that the validator rejected, the status code is the sentinel None, the
\* error string is the literal message, and the call stored no payload (data
\* is None unless an earlier call stored one).
C2_ValidatorAlwaysRejects ==
    (/\ pc = "done"
     /\ escaped = "none"
     /\ attemptLog # <<>>
     /\ AllAttempts("reject"))
    => (/\ ret_code = NoCode
        /\ error_string = "Downloaded data is invalid or incomplete."
        /\ dataCall # calls
        /\ (dataCall = 0 => data = NoData))

\* a call whose retries (at least one) were exhausted by validator rejections
C2_Witness ==
    /\ pc = "done"
    /\ escaped = "none"
    /\ AllAttempts("reject")
    /\ retry_count >= 1
    /\ Len(attemptLog) = retry_count + 1

\* C3: between calls, ok() is true iff the status code is 200 and the error
\* string is empty.
C3_OkIffCleanResult ==
    pc \in {"idle", "done"} => (Ok <=> (ret_code = 200 /\ error_string = ""))

\* C4: after a host-transport call that supplied a User-Agent header has
\* ended, the process-wide user-agent setting is what it was when the call
\* began: absent if it was absent, the same value otherwise.
C4_UserAgentRestored ==
    (pc = "done" /\ transport = "QGIS" /\ UAKey \in DOMAIN headers)
    => userAgent = priorUA

\* C5: no exception leaves download().
C5_NoExceptionEscapes == escaped = "none"

\* C6: after a successful call (its last attempt returned 200 and passed the
\* validator, and the call returned), the payload is the received bytes
\* unchanged when the content type contains "zip", and their UTF-8 decoding
\* otherwise.
C6_PayloadClassified ==
    (/\ pc = "done"
     /\ escaped = "none"
     /\ attemptLog # <<>>
     /\ attemptLog[Len(attemptLog)] = "pass")
    => data = IF ContainsZip(reply.ctype)
              THEN [kind |-> "binary", val |-> reply.body]
              ELSE [kind |-> "text", val |-> Utf8Decode(reply.body).chars]

(***************************************************************************)
(* Claims about the SWMM run, checked under SpecRun and SpecScan.          *)
(***************************************************************************)
\* the texts a log holds at one level, in order
RECURSIVE LogTexts(_, _)
LogTexts(log, level) ==
    IF log = <<>> THEN <<>>
    ELSE (IF Head(log).level = level THEN <<Head(log).text>> ELSE <<>>)
         \o LogTexts(Tail(log), level)
RECURSIVE FeedbackTexts(_, _)
FeedbackTexts(log, kind) ==
    IF log = <<>> THEN <<>>
    ELSE (IF Head(log).kind = kind THEN <<Head(log).text>> ELSE <<>>)
         \o FeedbackTexts(Tail(log), kind)
\* the output lines the log holds (the task's completion message is logged
\* at the same level)
RECURSIVE Without(_, _)
Without(texts, t) ==
    IF texts = <<>> THEN <<>>
    ELSE (IF Head(texts) = t THEN <<>> ELSE <<Head(texts)>>) \o Without(Tail(texts), t)
LoggedLines ==
    Without(Without(LogTexts(messageLog, "Info"), TaskCompletedMessage), TaskStartedMessage)
PushedLines == FeedbackTexts(feedbackLog, "pushInfo")

\* the lines of an output that are not blank, each without its trailing
\* whitespace (its line end)
RECURSIVE Deliverable(_)
Deliverable(lines) ==
    IF lines = <<>> THEN <<>>
    ELSE (IF \E i \in 1..Len(Head(lines)) : ~IsSpace(Head(lines)[i])
          THEN <<RStrip(Head(lines))>> ELSE <<>>)
         \o Deliverable(Tail(lines))

\* the run's loop and wait are over
RunOver == rpc \in {"scan", "finish", "done"}

\* the cancellation signal the run was handed: the feedback's flag, or the
\* task's flag when it runs as a task
RunSignal == IF run_as_task THEN taskCanceled ELSE fbCanceled

\* C7: when no cancellation was ever signalled and no exception was raised,
\* the run has delivered (logged, and pushed to the feedback it was handed)
\* exactly the non-blank lines of the child's output, in order and without
\* their trailing whitespace, has terminated nothing, and yields the child's
\* exit code.
C7_LinesDeliveredInOrder ==
    (RunOver /\ raised = "none" /\ ~fbCanceled /\ ~taskCanceled)
    => (/\ LoggedLines = Deliverable(childOut)
        /\ (HasFeedback => PushedLines = Deliverable(childOut))
        /\ linesRead = Len(childOut)
        /\ terminateCalls = 0
        /\ procStatus = "exited"
        /\ exit_code = procCode)

\* the child wrote "A", a blank line and " B ", and exited with code 0
C7_Witness ==
    /\ rpc = "done"
    /\ raised = "none"
    /\ ~fbCanceled /\ ~taskCanceled
    /\ childOut = << <<"A", "\n">>, <<"\n">>, <<" ", "B", " ", "\n">> >>
    /\ LoggedLines = << <<"A">>, <<" ", "B">> >>
    /\ exit_code = 0

\* C8: a poll that finds the cancellation signal set terminates the child and
\* leaves the loop for the wait; once terminate was called no line is read or
\* delivered any more; and the run then yields the exit code the terminated
\* child yielded.
C8_CancelAtPollTerminates ==
    /\ [][(rpc = "poll" /\ rpc' # "poll" /\ RunSignal)
          => (/\ terminateCalls' = terminateCalls + 1
              /\ procStatus' = "exited"
              /\ rpc' = "wait")]_vars
    /\ [][terminateCalls > 0
          => (/\ linesRead' = linesRead
              /\ LoggedLines' = LoggedLines
              /\ PushedLines' = PushedLines
              /\ terminateCalls' = terminateCalls)]_vars
    /\ []((RunOver /\ terminateCalls > 0 /\ raised = "none")
          => (procStatus = "exited" /\ exit_code = procCode))

\* cancelled right after the first delivered line, with a further line
\* written by the child and never read
C8_Witness ==
    /\ rpc = "done"
    /\ raised = "none"
    /\ terminateCalls = 1
    /\ linesRead = 1
    /\ Len(LoggedLines) = 1
    /\ Len(childOut) > 1
    /\ exit_code \in TerminatedExitCodes

\* the places of the diagnostic lines of the report, in file order
RECURSIVE DiagnosticPlaces(_, _, _)
DiagnosticPlaces(v, lines, i) ==
    IF i > Len(lines) THEN <<>>
    ELSE (IF Strip(lines[i]) # <<>> /\ IsDiagnostic(v, Upper(Strip(lines[i])))
          THEN <<i>> ELSE <<>>)
         \o DiagnosticPlaces(v, lines, i + 1)

\* the scan is over
ScanOver == rpc \in {"finish", "done"}

\* C9: a scan that met no I/O error, of a report with d diagnostic lines, has
\* emitted the first min(d, 10) of them in file order, followed by one "..."
\* marker iff d > 10, and has read no line after the 11th diagnostic line.
C9_ScanCeiling ==
    (ScanOver /\ report.exists /\ ~scanFault)
    => LET places == DiagnosticPlaces(variant, report.lines, 1)
           d == Len(places)
           shown == IF d < 10 THEN d ELSE 10
           expected == [k \in 1..shown |-> Strip(report.lines[places[k]])]
                       \o (IF d > 10 THEN << <<"...">> >> ELSE <<>>)
       IN  /\ LogTexts(messageLog, "Warning") = expected
           /\ (HasFeedback => FeedbackTexts(feedbackLog, "pushWarning") = expected)
           /\ reportRead = IF d > 10 THEN places[11] ELSE Len(report.lines)

\* a report of twelve diagnostic lines has been scanned: ten lines and the
\* marker were emitted and the twelfth line was not read
C9_Witness ==
    /\ ScanOver
    /\ ~scanFault
    /\ Len(DiagnosticPlaces(variant, report.lines, 1)) >= 12
    /\ Len(LogTexts(messageLog, "Warning")) = 11
    /\ reportRead = 11

\* C10: when the launch, the read of the output or the wait raised, the run
\* has reported the exception once (to the log, and to the feedback it was
\* handed) and yields exit code 1.
C10_ExceptionYieldsOne ==
    (RunOver /\ raised # "none")
    => (/\ exit_code = 1
        /\ Len(Without(LogTexts(messageLog, "Critical"), NonZeroMessage)) >= 1
        /\ LogTexts(messageLog, "Critical")[1] = ExceptionMessage
        /\ (HasFeedback => FeedbackTexts(feedbackLog, "reportError") = <<ExceptionMessage>>))

\* the child could not be launched
C10_Witness ==
    /\ rpc = "done"
    /\ raised = "launch"
    /\ procStatus = "none"
    /\ exit_code = 1

\* C11: as a background task, a poll that finds the task's cancellation flag
\* or the processing feedback's cancel flag set terminates the child and
\* leaves the loop.
C11_TaskModeEitherSignal ==
    [][(HasTask /\ rpc = "poll" /\ rpc' # "poll" /\ (taskCanceled \/ fbCanceled))
       => (/\ terminateCalls' = terminateCalls + 1
           /\ rpc' = "wait")]_vars

(***************************************************************************)
(* Claims about several processAlgorithm calls, under SpecPool.            *)
(***************************************************************************)
\* the calls whose child process is running
RunningChildren == {i \in 1..Len(invocations) : invocations[i].stage = "running"}

\* C12: no two child processes launched by processAlgorithm calls run at the
\* same time.
C12_OneChildAtATime == Cardinality(RunningChildren) <= 1

(***************************************************************************)
(* Claims about two fetches at once, under SpecPair.                       *)
(***************************************************************************)
\* C13: once two fetches that both supplied a User-Agent header have
\* completed, however their steps interleaved, the process-wide setting is
\* what it was before either began (stated for a setting that was absent or
\* not empty: the empty value is lost by one fetch alone).
C13_PairRestoresUserAgent ==
    ((\A i \in Fetches : fetchers[i].pc = "done") /\ priorUA # "")
    => userAgent = priorUA

(***************************************************************************)
(* Further claims about the downloader, under Spec.                        *)
(***************************************************************************)
\* the retries the current call has made
Retries == IF pc = "get" THEN gets ELSE IF gets = 0 THEN 0 ELSE gets - 1

\* C14: the k-th retry of a call (k = 1, 2, ...) waits retry_interval[k-1]
\* (0-based), whether it follows a non-200 status or a rejected body; when
\* the schedule has at least retry_count entries no lookup is out of range,
\* and so with the default policy.
C14_WaitIndexedByAttempt ==
    /\ waits = SubSeq(retry_interval, 1, Len(waits))
    /\ (escaped # "IndexError" => Len(waits) = Retries)
    /\ (Len(retry_interval) >= retry_count => escaped # "IndexError")
    /\ ((retry_count = DefaultRetryCount /\ retry_interval = DefaultRetryInterval)
        => escaped # "IndexError")

\* a call that retried once after a non-200 status and once after a rejected
\* body, waiting 5 and then 10 seconds
C14_Witness ==
    /\ Len(attemptLog) >= 2
    /\ attemptLog[1] = "fail"
    /\ attemptLog[2] = "reject"
    /\ waits = <<5, 10>>

\* how many attempts of the current call went this way
RECURSIVE CountKind(_, _)
CountKind(log, kind) ==
    IF log = <<>> THEN 0
    ELSE (IF Head(log) = kind THEN 1 ELSE 0) + CountKind(Tail(log), kind)

\* the attempts of the current call that were followed by a retry
Retried == IF pc = "done" THEN SubSeq(attemptLog, 1, Len(attemptLog) - 1) ELSE attemptLog

\* C15: on the host transport the URL has been removed from the cache once
\* for each retry that followed a rejected 200 response, by the time the next
\* GET is issued, and never for a retry that followed a non-200 status; the
\* standalone transport never removes anything from a cache.
C15_CacheRemovedOnRejectRetry ==
    /\ cacheRemovals = CountKind(Retried, "reject")
    /\ (transport = "Requests" => cacheRemovals = 0)

\* the third GET of a call is about to be issued, after a retry that followed
\* a rejected body (one removal) and a retry that followed a non-200 status
C15_Witness ==
    /\ transport = "QGIS"
    /\ pc = "get"
    /\ attemptLog = <<"reject", "fail">>
    /\ cacheRemovals = 1

\* C16: while a GET attempt of a host-transport fetch that supplied a
\* User-Agent header is awaited (the first attempt or a retry), the
\* process-wide setting is the supplied value.
C16_UserAgentDuringEveryAttempt ==
    (transport = "QGIS" /\ UAKey \in DOMAIN headers /\ pc = "await")
    => userAgent = headers[UAKey]

(***************************************************************************)
(* Further claims about the SWMM run, under SpecRun.                       *)
(***************************************************************************)
\* C17: the read loop polls the cancellation signal once after each line it
\* has taken, blank or not, and nowhere else; terminate() is called by a
\* poll only; and a run in which no poll found the signal set ends only once
\* the child has exited on its own, with the child's own exit code.
C17_PollOncePerLine ==
    /\ [](polls = IF rpc = "poll" THEN linesRead - 1 ELSE linesRead)
    /\ [][terminateCalls' # terminateCalls => (rpc = "poll" /\ IsCanceled)]_vars
    /\ []((RunOver /\ raised = "none" /\ terminateCalls = 0)
          => (procStatus = "exited" /\ procCode \in ChildExitCodes
              /\ exit_code = procCode))

\* the signal is set, the child is running and has written nothing that is
\* still unread: the run waits for a line and the child is not terminated
C17_Witness ==
    /\ rpc = "read"
    /\ IsCanceled
    /\ procStatus = "running"
    /\ linesRead = Len(childOut)
    /\ linesRead >= 1
    /\ terminateCalls = 0

\* C18: the scan of the report begins only once the child has exited and
\* the run's exit code is set; it is made exactly once in every run that
\* launched the child; and it leaves the exit code as it was.
C18_ScanOnceAfterExit ==
    /\ [](rpc = "scan" => (procStatus # "running" /\ exit_code # NoExitCode))
    /\ []((rpc = "done" /\ procStatus # "none") => scans = 1)
    /\ [][rpc = "scan" => exit_code' = exit_code]_vars

\* the messages that report how a task ended
CompletionMessages == {TaskFailedMessage, TaskNonZeroMessage, TaskCompletedMessage}

\* the completion messages the log holds, at any level
RECURSIVE CompletionsLogged(_)
CompletionsLogged(log) ==
    IF log = <<>> THEN 0
    ELSE (IF Head(log).text \in CompletionMessages THEN 1 ELSE 0)
         + CompletionsLogged(Tail(log))

\* C19: as a background task, processAlgorithm returns to its caller with the
\* submission, before the child is even launched; the caller's feedback
\* receives nothing from the run; and when the run is over the log holds
\* exactly one completion message, which tells its outcome (completed for
\* exit code 0, one of the two failure messages otherwise), and none before.
C19_TaskReportsByLogOnly ==
    /\ [][(rpc = "call" /\ rpc' # "call" /\ run_as_task)
          => (callerReturned' /\ procStatus' = "none")]_vars
    /\ [](run_as_task =>
            /\ feedbackLog = <<>>
            /\ CompletionsLogged(messageLog) = IF rpc = "done" THEN 1 ELSE 0
            /\ (rpc = "done" =>
                  (messageLog[Len(messageLog)].text = TaskCompletedMessage
                   <=> exit_code = 0)))

(***************************************************************************)
(* Further claims about the report scan, under SpecScan.                   *)
(***************************************************************************)
\* the stripped, upper-cased line starts with ERROR or WARNING
StartsWithKeyword(line) ==
    LET up == Upper(Strip(line))
    IN  up # <<>> /\ up[1] \in {"ERROR", "WARNING"}

\* the lines of a report that start with a keyword, stripped, in file order
RECURSIVE KeywordLines(_)
KeywordLines(lines) ==
    IF lines = <<>> THEN <<>>
    ELSE (IF StartsWithKeyword(Head(lines)) THEN <<Strip(Head(lines))>> ELSE <<>>)
         \o KeywordLines(Tail(lines))

\* C20: the scan of either implementation takes a line for a diagnostic
\* line iff its stripped, upper-cased content starts with ERROR or WARNING:
\* what it emits is the first ten such lines of the report (and the marker
\* when there are more).
C20_StartsWithInBothScans ==
    (ScanOver /\ report.exists /\ ~scanFault)
    => LET found == KeywordLines(report.lines)
       IN  LogTexts(messageLog, "Warning") =
               IF Len(found) > MaxRptMessages
               THEN SubSeq(found, 1, MaxRptMessages) \o <<Ellipsis>>
               ELSE found


(***************************************************************************)
(* Further claims about the SWMM run, under SpecRun.                       *)
(***************************************************************************)
\* C21: an I/O error met while the report is opened or read by the scan is
\* reported as one warning (one to the log, one to the feedback the run was
\* handed), after the diagnostics emitted before it, and as nothing else: no
\* error, no fatal error; the run goes on to its end; and the scan leaves
\* the exit code of the run as it was.
C21_ScanFaultIsOneWarning ==
    /\ []((ScanOver /\ scanFault) =>
            LET warned == LogTexts(messageLog, "Warning")
                pushed == FeedbackTexts(feedbackLog, "pushWarning")
            IN  /\ CountKind(warned, ScanFaultMessage) = 1
                /\ warned[Len(warned)] = ScanFaultMessage
                /\ CountKind(LogTexts(messageLog, "Critical"), ScanFaultMessage) = 0
                /\ CountKind(LogTexts(messageLog, "Info"), ScanFaultMessage) = 0
                /\ (HasFeedback => pushed = warned)
                /\ \A i \in 1..Len(feedbackLog) :
                       feedbackLog[i].text = ScanFaultMessage
                       => feedbackLog[i].kind = "pushWarning")
    /\ []((ScanOver /\ ~scanFault) =>
            CountKind(LogTexts(messageLog, "Warning"), ScanFaultMessage) = 0)
    /\ [][(rpc = "scan" /\ rpc' # "scan")
          => (rpc' \in {"finish", "done"} /\ exit_code' = exit_code)]_vars

\* the child exited with code 0, the scan emitted the diagnostic of the
\* second line of the report and the read that followed raised: the run has
\* ended with exit code 0 and two warnings, the second the scan's
C21_Witness ==
    /\ rpc = "done"
    /\ scanFault
    /\ reportRead = 2
    /\ exit_code = 0
    /\ LogTexts(messageLog, "Warning") = <<Strip(DiagLine(2)), ScanFaultMessage>>


(***************************************************************************)
(* Further claims about the downloader, under Spec.                        *)
(***************************************************************************)
\* C22: between the calls made on one instance (none of which let an
\* exception out), when ok() is true data is the payload the most recent
\* call stored, and when the most recent call ended non-ok data is not a
\* payload that an earlier call stored.
C22_DataOfLatestCall ==
    (pc \in {"idle", "done"} /\ escaped = "none" /\ calls >= 1)
    => (/\ (Ok => (data # NoData /\ dataCall = calls))
        /\ (~Ok => dataCall \notin 1..(calls - 1)))


\* C23: during and after a host-transport call whose headers hold no
\* User-Agent entry, the process-wide user-agent setting is what it was when
\* the call began.
C23_NoHeaderLeavesUserAgent ==
    (transport = "QGIS" /\ UAKey \notin DOMAIN headers /\ calls >= 1)
    => userAgent = priorUA


\* C24: a host-transport call with N allowed retries issues at most N+1 GETs,
\* whatever mix of non-200 statuses and rejected bodies its attempts meet
\* (each GET advances the one attempt counter); an attempt that returns 200
\* and passes the validator is the last of its call; and every call that was
\* begun comes to its end.
C24_BoundedAttempts ==
    /\ [](transport = "QGIS" =>
            /\ gets <= retry_count + 1
            /\ (pc \in {"get", "await", "done"} => try_count = gets - 1)
            /\ \A i \in 1..Len(attemptLog) :
                   attemptLog[i] = "pass" => (i = Len(attemptLog) /\ pc = "done"))
    /\ [][(transport = "QGIS" /\ gets' = gets + 1)
          => (pc = "get" /\ Len(attemptLog) = gets /\ gets <= retry_count)]_vars
    /\ ((transport = "QGIS" /\ pc \in {"get", "await"}) ~> (pc = "done"))

\* a call with two allowed retries whose first attempt got a non-200 status
\* and whose second got a rejected body has ended with its third GET
C24_Witness ==
    /\ transport = "QGIS"
    /\ pc = "done"
    /\ retry_count = 2
    /\ gets = 3
    /\ attemptLog[1] = "fail"
    /\ attemptLog[2] = "reject"


(***************************************************************************)
(* Claims about processAlgorithm before the launch, under SpecPre.         *)
(***************************************************************************)
\* processAlgorithm has reported a fatal error before the launch
FatalReported ==
    \E i \in 1..Len(feedbackLog) :
        feedbackLog[i].kind = "fatalError" /\ feedbackLog[i].text \in PreLaunchMessages

\* C25: once processAlgorithm has reported a fatal error before the launch
\* (input file missing, unsupported input type, conversion failed,
\* executable missing or not found), in either file, the child is never
\* launched, the report is never scanned and no exception leaves
\* processAlgorithm.
C25_FatalErrorStopsRun ==
    FatalReported => (/\ rpc \notin {"launch", "read"}
                      /\ procStatus = "none"
                      /\ scans = 0
                      /\ escapedRun = "none")


(***************************************************************************)
(* Further claims about the SWMM run, under SpecRun.                       *)
(***************************************************************************)
\* the output lines a log holds after its first n entries
LoggedLinesSince(n) ==
    Without(Without(LogTexts(SubSeq(messageLog, n + 1, Len(messageLog)), "Info"),
                    TaskCompletedMessage), TaskStartedMessage)
PushedLinesSince(n) ==
    FeedbackTexts(SubSeq(feedbackLog, n + 1, Len(feedbackLog)), "pushInfo")

\* C26: once the cancellation signal the run was handed has become set, at
\* most one further output line is delivered (logged, and pushed to the
\* feedback the run was handed); terminate is called at most once in a run.
C26_OneMoreLineAfterSignal ==
    /\ signalAt.set <=> RunSignal
    /\ (signalAt.set =>
          /\ Len(LoggedLinesSince(signalAt.log)) <= 1
          /\ Len(PushedLinesSince(signalAt.fb)) <= 1)
    /\ terminateCalls <= 1

\* the signal became set while the run waited for the second line; the
\* second line was delivered, the poll after it terminated the child, and a
\* third line that the child had written was never read
C26_Witness ==
    /\ rpc = "done"
    /\ signalAt.set
    /\ Len(LoggedLines) = 2
    /\ Len(LoggedLinesSince(signalAt.log)) = 1
    /\ terminateCalls = 1
    /\ Len(childOut) = 3
    /\ linesRead = 2


\* C27: in a run whose launch of the child raised (the run yields 1 by its
\* exception handler), in either file, the report is not scanned: no line of
\* a report that an earlier run left is read or emitted.
C27_NoScanAfterFailedLaunch ==
    raised = "launch"
    => (/\ reportRead = 0
        /\ LogTexts(messageLog, "Warning") = <<>>
        /\ FeedbackTexts(feedbackLog, "pushWarning") = <<>>)


(***************************************************************************)
(* Claims about _apply_date_overrides, under SpecDates.                    *)
(***************************************************************************)
\* the lines of a file's [OPTIONS] section (after its first [OPTIONS] header,
\* up to the next section header) that set this key
RECURSIVE KeyLinesIn(_, _, _)
KeyLinesIn(lines, key, inOptions) ==
    IF lines = <<>> THEN 0
    ELSE LET text == Strip(Head(lines))
         IN  IF Upper(text) = <<OptionsHeader>> THEN KeyLinesIn(Tail(lines), key, TRUE)
             ELSE IF IsSectionHeader(text) THEN KeyLinesIn(Tail(lines), key, FALSE)
             ELSE (IF inOptions /\ Upper(FirstWord(text)) = <<key>> THEN 1 ELSE 0)
                  + KeyLinesIn(Tail(lines), key, inOptions)
KeyLines(content, key) == KeyLinesIn(SplitLines(ReadTextMode(content), <<>>), key, FALSE)

\* C28: applying the same overrides again leaves the file as the first
\* application left it, and after an application each supplied key is set
\* on exactly one line of the [OPTIONS] section.
C28_DateOverridesIdempotent ==
    \A n \in 1..Len(applied) :
        /\ applied[n] = applied[1]
        /\ \A key \in DOMAIN overrides : KeyLines(applied[n], key) = 1

====
